---- MODULE Spec2Model ----
(***************************************************************************)
(* Model of simclr/utils/simclr_train_v2.py: the pair construction of the  *)
(* contrastive loss (info_nce_loss) and the training loop driver           *)
(* (train_simclr).                                                         *)
(*                                                                         *)
(* Tensors are sequences (vectors) and sequences of sequences (matrices,   *)
(* row major).  Feature rows are integer vectors whose L2 norm is an       *)
(* integer, so that F.normalize and the dot products stay in the integers. *)
(* A logit is the exact quotient similarity / temperature, kept as a       *)
(* reduced fraction [num, den]; a zero temperature gives den = 0 (IEEE     *)
(* inf, -inf or nan: no exception is raised by a float division).          *)
(***************************************************************************)
EXTENDS Integers, Sequences, FiniteSets

\* ---------------------------------------------------------------- bounds

MaxBatch == 3
MaxViews == 3
MaxRows == 6
MaxTrainRows == 6
MaxEpochs == 12
MaxLogEvery == 3
MaxBatches == 2

\* "warmup for the first 10 epochs"
WarmupEpochs == 10

\* The temperatures tried: negative, zero and positive ones.
Temperatures == {-1, 0, 1, 2}

\* The rows a model collaborator may return: e1, 2*e2, -3*e1 (D = 2).
FeatureCycle == <<(<<1, 0>>), (<<0, 2>>), (<<-3, 0>>)>>

FeatureRows == {FeatureCycle[k] : k \in 1..Len(FeatureCycle)}

\* ------------------------------------------------------- tensor helpers

Abs(x) == IF x < 0 THEN -x ELSE x

Sign(x) == IF x < 0 THEN -1 ELSE IF x > 0 THEN 1 ELSE 0

RECURSIVE Gcd(_, _)
Gcd(a, b) == IF b = 0 THEN a ELSE Gcd(b, a % b)

RECURSIVE SumSeq(_)
SumSeq(s) == IF s = <<>> THEN 0 ELSE Head(s) + SumSeq(Tail(s))

\* torch.cat([torch.arange(batch_size) for _ in range(n_views)], dim=0):
\* the source id of every row, the image indices tiled n_views times.
CatArange(batch_size, n_views) ==
    [k \in 1..(batch_size * n_views) |-> (k - 1) % batch_size]

\* (labels.unsqueeze(0) == labels.unsqueeze(1)).float(): 1.0 where the two
\* rows have the same source id, 0.0 elsewhere.
EqFloat(ids) ==
    [i \in 1..Len(ids) |-> [j \in 1..Len(ids) |-> IF ids[i] = ids[j] THEN 1 ELSE 0]]

\* The L2 norm of a row (the model's rows have an integer norm).
Norm(v) ==
    LET sq == SumSeq([k \in 1..Len(v) |-> v[k] * v[k]])
    IN  CHOOSE n \in 0..sq : n * n = sq

\* F.normalize(features, dim=1): v / max(||v||, eps), row by row.
Normalize(feats) ==
    [i \in 1..Len(feats) |->
        LET n == Norm(feats[i])
        IN  IF n = 0 THEN feats[i]
            ELSE [k \in 1..Len(feats[i]) |-> feats[i][k] \div n]]

\* torch.matmul(features, features.T)
MatMulT(f) ==
    [i \in 1..Len(f) |-> [j \in 1..Len(f) |->
        SumSeq([k \in 1..Len(f[i]) |-> f[i][k] * f[j][k]])]]

\* torch.eye(n, dtype=torch.bool)
Eye(n) == [i \in 1..n |-> [j \in 1..n |-> i = j]]

\* ~mask
Not(m) == [i \in 1..Len(m) |-> [j \in 1..Len(m[i]) |-> ~m[i][j]]]

\* labels.bool()
Bool(m) == [i \in 1..Len(m) |-> [j \in 1..Len(m[i]) |-> m[i][j] # 0]]

RECURSIVE SelectRow(_, _, _)
SelectRow(row, mrow, k) ==
    IF k > Len(row) THEN <<>>
    ELSE (IF mrow[k] THEN <<row[k]>> ELSE <<>>) \o SelectRow(row, mrow, k + 1)

RECURSIVE SelectFrom(_, _, _)
SelectFrom(m, mask, i) ==
    IF i > Len(m) THEN <<>>
    ELSE SelectRow(m[i], mask[i], 1) \o SelectFrom(m, mask, i + 1)

\* m[mask] with a boolean mask of m's shape: the selected entries as a flat
\* vector, in row-major order.
MaskedSelect(m, mask) == SelectFrom(m, mask, 1)

\* A view that would give an empty tensor rows of no element.
ViewLenient(flat, rows) ==
    IF rows = 0 \/ (Len(flat) # 0 /\ Len(flat) % rows # 0)
    THEN [ok |-> FALSE, val |-> <<>>]
    ELSE [ok |-> TRUE,
          val |-> [i \in 1..rows |->
                     SubSeq(flat, (i - 1) * (Len(flat) \div rows) + 1,
                                  i * (Len(flat) \div rows))]]

\* flat.view(rows, -1): raises when the tensor has no element (the size of
\* the inferred dimension is ambiguous) or when rows does not divide the
\* number of elements.
View(flat, rows) ==
    IF Len(flat) = 0 \/ rows = 0 \/ Len(flat) % rows # 0
    THEN [ok |-> FALSE, val |-> <<>>]
    ELSE [ok |-> TRUE,
          val |-> [i \in 1..rows |->
                     SubSeq(flat, (i - 1) * (Len(flat) \div rows) + 1,
                                  i * (Len(flat) \div rows))]]

\* A concatenation in the other order.
CatNegativesFirst(positives, negatives) ==
    [i \in 1..Len(positives) |-> negatives[i] \o positives[i]]

\* torch.cat(tensors=[positives, negatives], dim=1)
CatColumns(positives, negatives) ==
    [i \in 1..Len(positives) |-> positives[i] \o negatives[i]]

\* torch.zeros(n, dtype=torch.long)
Zeros(n) == [i \in 1..n |-> 0]

\* x / t in floating point: the exact quotient as a reduced fraction with a
\* positive denominator; t = 0 gives inf (1/0), -inf (-1/0) or nan (0/0).
Quot(x, t) ==
    IF t = 0 THEN [num |-> Sign(x), den |-> 0]
    ELSE LET g == Gcd(Abs(x), Abs(t))
         IN  [num |-> (Sign(t) * x) \div g, den |-> Abs(t) \div g]

\* logits / args.temperature
DivideBy(m, t) == [i \in 1..Len(m) |-> [j \in 1..Len(m[i]) |-> Quot(m[i][j], t)]]

\* ------------------------------------------------------- info_nce_loss

\* What a call leaves behind: whether it returned, the label mask after the
\* diagonal removal (empty when that view raised), and the returned pair.
Raised(mask) == [ok |-> FALSE, mask |-> mask, logits |-> <<>>, labels |-> <<>>]

info_nce_loss(feats, a) ==
    LET ids == CatArange(a.batch_size, a.n_views)
        eq == EqFloat(ids)
        sm == MatMulT(Normalize(feats))
        mask == Eye(Len(eq))
        lab == View(MaskedSelect(eq, Not(mask)), Len(eq))
        sim == View(MaskedSelect(sm, Not(mask)), Len(sm))
        positives == View(MaskedSelect(sim.val, Bool(lab.val)), Len(lab.val))
        negatives == View(MaskedSelect(sim.val, Not(Bool(lab.val))), Len(sim.val))
        cat == CatColumns(positives.val, negatives.val)
    IN  IF ~lab.ok THEN Raised(<<>>)
        ELSE IF Len(sm) # Len(mask) \/ ~sim.ok THEN Raised(lab.val)
        ELSE IF ~positives.ok \/ ~negatives.ok THEN Raised(lab.val)
        ELSE [ok |-> TRUE, mask |-> lab.val,
              logits |-> DivideBy(cat, a.temperature),
              labels |-> Zeros(Len(cat))]

\* ---------------------------------------------------------------- state

VARIABLES
    args,             \* the configuration
    train_loader,     \* the number of batches the loader yields per epoch
    pc,               \* the position of the driver
    failure,          \* the call whose exception ended the run, or "none"
    epoch_counter,    \* epochs completed (the loop variable of the next one)
    batch_idx,        \* batches consumed in the current epoch
    consumed,         \* batches drawn from the loader over the whole run
    n_iter,           \* the global step counter
    features,         \* the local features
    mask_labels,      \* info_nce_loss's labels after the diagonal removal
    logits,           \* the local logits
    labels,           \* the local labels
    loss,             \* the local loss: <<>> unbound, <<n>> of global step n
    top1,             \* the local top1: <<>> unbound, <<n>> of global step n
    opt_steps,        \* optimizer steps taken
    wandb_inited,     \* wandb.init has run
    wandb_log,        \* the metric dictionaries the tracker accepted
    wandb_save_calls, \* calls of wandb.save
    wandb_saved,      \* the artifacts the tracker accepted
    scheduler_steps,  \* the epochs at whose end scheduler.step() ran
    epoch_log,        \* the end-of-epoch lines of the run log
    checkpoints       \* the checkpoint files written

vars == <<args, train_loader, pc, failure, epoch_counter, batch_idx, consumed,
          n_iter, features, mask_labels, logits, labels, loss, top1, opt_steps,
          wandb_inited, wandb_log, wandb_save_calls, wandb_saved,
          scheduler_steps, epoch_log, checkpoints>>

locals == <<features, mask_labels, logits, labels, loss, top1>>

tracker == <<wandb_inited, wandb_log, wandb_save_calls, wandb_saved>>

\* The (batch_size, n_views) pairs tried: batch sizes from 0 and view counts
\* from 1, so that the degenerate configurations are among them.
Shapes(rows) ==
    {s \in (0..MaxBatch) \X (1..MaxViews) : s[1] * s[2] <= rows}

Configs(rows, epochs, every) ==
    {[batch_size |-> s[1], n_views |-> s[2], temperature |-> t,
      train_epochs |-> e, log_every_n_steps |-> k, arch |-> "resnet18"] :
        s \in Shapes(rows), t \in Temperatures, e \in epochs, k \in every}

\* The state of the locals and collaborators before train_simclr has run.
Fresh ==
    /\ failure = "none"
    /\ epoch_counter = 0
    /\ batch_idx = 0
    /\ consumed = 0
    /\ n_iter = 0
    /\ features = <<>>
    /\ mask_labels = <<>>
    /\ logits = <<>>
    /\ labels = <<>>
    /\ loss = <<>>
    /\ top1 = <<>>
    /\ opt_steps = 0
    /\ wandb_inited = FALSE
    /\ wandb_log = <<>>
    /\ wandb_save_calls = 0
    /\ wandb_saved = <<>>
    /\ scheduler_steps = <<>>
    /\ epoch_log = <<>>
    /\ checkpoints = <<>>

\* ------------------------------------------- one forward computation

\* All feature matrices of the given number of rows.
FeatureMatrices(rows) == [1..rows -> FeatureRows]

\* features = model(images), for any model
Forward ==
    /\ pc = "model"
    /\ \E f \in FeatureMatrices(args.batch_size * args.n_views) : features' = f
    /\ pc' = "info_nce_loss"
    /\ UNCHANGED <<args, train_loader, failure, epoch_counter, batch_idx, consumed,
                   n_iter, mask_labels, logits, labels, loss, top1, opt_steps,
                   tracker, scheduler_steps, epoch_log, checkpoints>>

\* logits, labels = info_nce_loss(features=features, args=args), returning
PairConstruction ==
    LET r == info_nce_loss(features, args)
    IN  /\ pc = "info_nce_loss"
        /\ r.ok
        /\ mask_labels' = r.mask
        /\ logits' = r.logits
        /\ labels' = r.labels
        /\ pc' = "criterion"
        /\ UNCHANGED <<args, train_loader, failure, epoch_counter, batch_idx,
                       consumed, n_iter, features, loss, top1, opt_steps,
                       tracker, scheduler_steps, epoch_log, checkpoints>>

\* the same call, raising
PairConstructionRaises ==
    LET r == info_nce_loss(features, args)
    IN  /\ pc = "info_nce_loss"
        /\ ~r.ok
        /\ mask_labels' = r.mask
        /\ pc' = "Failed"
        /\ failure' = "info_nce_loss"
        /\ UNCHANGED <<args, train_loader, epoch_counter, batch_idx, consumed,
                       n_iter, features, logits, labels, loss, top1, opt_steps,
                       tracker, scheduler_steps, epoch_log, checkpoints>>

\* loss = criterion(logits, labels)
Criterion ==
    /\ pc = "criterion"
    /\ loss' = <<n_iter>>
    /\ pc' = "backward"
    /\ UNCHANGED <<args, train_loader, failure, epoch_counter, batch_idx, consumed,
                   n_iter, features, mask_labels, logits, labels, top1, opt_steps,
                   tracker, scheduler_steps, epoch_log, checkpoints>>

InitStep ==
    /\ args \in Configs(MaxRows, {1}, {1})
    /\ train_loader = 1
    /\ pc = "model"
    /\ Fresh

NextStep == Forward \/ PairConstruction \/ PairConstructionRaises \/ Criterion

SpecStep == InitStep /\ [][NextStep]_vars

\* ---------------------------------------------------------- train_simclr

\* A stub model: the rows of FeatureCycle in turn, shifted by the step.
ModelForward(a, step) ==
    [r \in 1..(a.batch_size * a.n_views) |->
        FeatureCycle[((r + step) % Len(FeatureCycle)) + 1]]

\* A logging test on the counter after its increment.
IsLogStepOffByOne(n, k) == (n + 1) % k = 0

\* n_iter % args.log_every_n_steps == 0
IsLogStep(n, k) == n % k = 0

\* A warm-up one epoch longer.
SchedulerDueAfter(epoch) == epoch > WarmupEpochs

\* epoch_counter >= 10
SchedulerDue(epoch) == epoch >= WarmupEpochs

RECURSIVE Digits(_)
Digits(n) == IF n < 10 THEN <<n>> ELSE Digits(n \div 10) \o <<n % 10>>

\* 'checkpoint_{:04d}.pth.tar'.format(epochs): the parts of the name, the
\* number as its decimal digits, zero-padded to four.
CheckpointName(epochs) ==
    <<"checkpoint_",
      [k \in 1..(IF Len(Digits(epochs)) < 4 THEN 4 - Len(Digits(epochs)) ELSE 0) |-> 0]
          \o Digits(epochs),
      ".pth.tar">>

\* The checkpoint written at the end of the run.
CheckpointRecord ==
    [filename |-> CheckpointName(args.train_epochs),
     is_best |-> FALSE,
     state |-> [epoch |-> args.train_epochs, arch |-> args.arch,
                state_dict |-> opt_steps, optimizer |-> opt_steps]]

\* The dictionary handed to wandb.log at global step n, with the number of
\* optimizer steps taken when it is handed over.
Metrics(n, steps) ==
    [loss |-> <<n>>, top1 |-> <<n>>, top5 |-> <<n>>,
     learning_rate |-> Len(scheduler_steps), global_step |-> n,
     opt_steps |-> steps]

\* wandb.init ... logging.info: the run is initialised and the epoch loop
\* is entered (or skipped, with no epoch to run).
Start ==
    /\ pc = "Idle"
    /\ wandb_inited' = TRUE
    /\ n_iter' = 0
    /\ pc' = IF args.train_epochs > 0 THEN "Running" ELSE "Finishing"
    /\ UNCHANGED <<args, train_loader, failure, epoch_counter, batch_idx, consumed,
                   locals, opt_steps, wandb_log, wandb_save_calls, wandb_saved,
                   scheduler_steps, epoch_log, checkpoints>>

\* One pass of the batch loop's body with every call returning.
TrainStep ==
    LET r == info_nce_loss(ModelForward(args, n_iter), args)
    IN  /\ pc = "Running"
        /\ batch_idx < train_loader
        /\ r.ok
        /\ batch_idx' = batch_idx + 1
        /\ consumed' = consumed + 1
        /\ features' = ModelForward(args, n_iter)
        /\ mask_labels' = r.mask
        /\ logits' = r.logits
        /\ labels' = r.labels
        /\ loss' = <<n_iter>>
        /\ opt_steps' = opt_steps + 1
        /\ IF IsLogStep(n_iter, args.log_every_n_steps)
           THEN /\ top1' = <<n_iter>>
                /\ wandb_log' = Append(wandb_log, Metrics(n_iter, opt_steps + 1))
           ELSE UNCHANGED <<top1, wandb_log>>
        /\ n_iter' = n_iter + 1
        /\ UNCHANGED <<args, train_loader, pc, failure, epoch_counter, wandb_inited,
                       wandb_save_calls, wandb_saved, scheduler_steps, epoch_log,
                       checkpoints>>

\* The body with info_nce_loss raising: the exception leaves train_simclr.
TrainStepPairsRaise ==
    LET r == info_nce_loss(ModelForward(args, n_iter), args)
    IN  /\ pc = "Running"
        /\ batch_idx < train_loader
        /\ ~r.ok
        /\ batch_idx' = batch_idx + 1
        /\ consumed' = consumed + 1
        /\ features' = ModelForward(args, n_iter)
        /\ mask_labels' = r.mask
        /\ pc' = "Failed"
        /\ failure' = "info_nce_loss"
        /\ UNCHANGED <<args, train_loader, epoch_counter, n_iter, logits, labels,
                       loss, top1, opt_steps, tracker, scheduler_steps, epoch_log,
                       checkpoints>>

\* The body on a logging step with wandb.log raising: nothing catches the
\* exception, which leaves train_simclr before n_iter += 1.
TrainStepLogRaises ==
    LET r == info_nce_loss(ModelForward(args, n_iter), args)
    IN  /\ pc = "Running"
        /\ batch_idx < train_loader
        /\ IsLogStep(n_iter, args.log_every_n_steps)
        /\ r.ok
        /\ batch_idx' = batch_idx + 1
        /\ consumed' = consumed + 1
        /\ features' = ModelForward(args, n_iter)
        /\ mask_labels' = r.mask
        /\ logits' = r.logits
        /\ labels' = r.labels
        /\ loss' = <<n_iter>>
        /\ opt_steps' = opt_steps + 1
        /\ top1' = <<n_iter>>
        /\ pc' = "Failed"
        /\ failure' = "wandb.log"
        /\ UNCHANGED <<args, train_loader, epoch_counter, n_iter, tracker,
                       scheduler_steps, epoch_log, checkpoints>>

\* The end of an epoch: the scheduler past the warm-up, then the log line.
EpochEnd ==
    /\ pc = "Running"
    /\ batch_idx = train_loader
    /\ loss # <<>>
    /\ top1 # <<>>
    /\ scheduler_steps' =
          IF SchedulerDue(epoch_counter)
          THEN Append(scheduler_steps, epoch_counter) ELSE scheduler_steps
    /\ epoch_log' = Append(epoch_log,
          [epoch |-> epoch_counter, loss |-> loss[1], top1 |-> top1[1]])
    /\ epoch_counter' = epoch_counter + 1
    /\ batch_idx' = 0
    /\ pc' = IF epoch_counter + 1 < args.train_epochs THEN "Running" ELSE "Finishing"
    /\ UNCHANGED <<args, train_loader, failure, consumed, n_iter, locals,
                   opt_steps, tracker, checkpoints>>

\* The end of an epoch in which no batch has bound loss (or top1): the
\* f-string of the log line raises UnboundLocalError.
EpochEndUnbound ==
    /\ pc = "Running"
    /\ batch_idx = train_loader
    /\ ~(loss # <<>> /\ top1 # <<>>)
    /\ scheduler_steps' =
          IF SchedulerDue(epoch_counter)
          THEN Append(scheduler_steps, epoch_counter) ELSE scheduler_steps
    /\ pc' = "Failed"
    /\ failure' = "UnboundLocalError"
    /\ UNCHANGED <<args, train_loader, epoch_counter, batch_idx, consumed, n_iter,
                   locals, opt_steps, tracker, epoch_log, checkpoints>>

\* save_checkpoint(...) returning
SaveCheckpoint ==
    /\ pc = "Finishing"
    /\ checkpoints' = Append(checkpoints, CheckpointRecord)
    /\ pc' = "Saved"
    /\ UNCHANGED <<args, train_loader, failure, epoch_counter, batch_idx, consumed,
                   n_iter, locals, opt_steps, tracker, scheduler_steps, epoch_log>>

\* A save_checkpoint whose error would be swallowed.
SaveCheckpointSwallowed ==
    /\ pc = "Finishing"
    /\ pc' = "Saved"
    /\ UNCHANGED <<args, train_loader, failure, epoch_counter, batch_idx, consumed,
                   n_iter, locals, opt_steps, tracker, scheduler_steps, epoch_log,
                   checkpoints>>

\* save_checkpoint(...) raising: the exception leaves train_simclr.
SaveCheckpointRaises ==
    /\ pc = "Finishing"
    /\ pc' = "Failed"
    /\ failure' = "save_checkpoint"
    /\ UNCHANGED <<args, train_loader, epoch_counter, batch_idx, consumed,
                   n_iter, locals, opt_steps, tracker, scheduler_steps, epoch_log,
                   checkpoints>>

\* wandb.save(checkpoint_name) returning
WandbSave ==
    /\ pc = "Saved"
    /\ wandb_save_calls' = wandb_save_calls + 1
    /\ wandb_saved' = Append(wandb_saved, CheckpointName(args.train_epochs))
    /\ pc' = "Finished"
    /\ UNCHANGED <<args, train_loader, failure, epoch_counter, batch_idx, consumed,
                   n_iter, locals, opt_steps, wandb_inited, wandb_log,
                   scheduler_steps, epoch_log, checkpoints>>

\* wandb.save(checkpoint_name) raising: the exception leaves train_simclr.
WandbSaveRaises ==
    /\ pc = "Saved"
    /\ wandb_save_calls' = wandb_save_calls + 1
    /\ pc' = "Failed"
    /\ failure' = "wandb.save"
    /\ UNCHANGED <<args, train_loader, epoch_counter, batch_idx, consumed,
                   n_iter, locals, opt_steps, wandb_inited, wandb_log, wandb_saved,
                   scheduler_steps, epoch_log, checkpoints>>

Init ==
    /\ args \in Configs(MaxTrainRows, 0..MaxEpochs, 1..MaxLogEvery)
    /\ train_loader \in 0..MaxBatches
    /\ pc = "Idle"
    /\ Fresh

Next ==
    \/ Start
    \/ TrainStep
    \/ TrainStepPairsRaise
    \/ TrainStepLogRaises
    \/ EpochEnd
    \/ EpochEndUnbound
    \/ SaveCheckpoint
    \/ SaveCheckpointRaises
    \/ WandbSave
    \/ WandbSaveRaises

Spec == Init /\ [][Next]_vars

\* ------------------------------------------- claims on info_nce_loss

\* The call of info_nce_loss has been made (it returned or raised).
PairsCalled == pc \in {"criterion", "backward"} \/ failure = "info_nce_loss"

\* The call of info_nce_loss has returned.
PairsReturned == pc \in {"criterion", "backward"}

Rows == args.batch_size * args.n_views

\* The source id of row i.
SourceId(i) == (i - 1) % args.batch_size

\* The other rows with row i's source id, and the rows with another one,
\* each in increasing order.
SameSource(i) ==
    SelectSeq([j \in 1..Rows |-> j], LAMBDA j : j # i /\ SourceId(j) = SourceId(i))

OtherSource(i) ==
    SelectSeq([j \in 1..Rows |-> j], LAMBDA j : SourceId(j) # SourceId(i))

\* The cosine similarity of rows i and j of the features.
Cosine(i, j) == MatMulT(Normalize(features))[i][j]

Count(row, x) == Cardinality({k \in 1..Len(row) : row[k] = x})

Max0(x) == IF x < 0 THEN 0 ELSE x

CeilDiv(a, b) == (a + b - 1) \div b

InvalidConfig ==
    args.temperature <= 0 \/ args.batch_size <= 0 \/ args.n_views < 2

\* A configuration with a positive temperature on which the pair
\* construction returns, with at least five logit columns (so that a top-5
\* accuracy of the positive among the candidates exists).
UsableConfig ==
    /\ args.temperature > 0
    /\ args.batch_size >= 2
    /\ args.n_views >= 2
    /\ args.batch_size * args.n_views - 1 >= 5

\* C4 (as claimed): a configuration with temperature <= 0, batch_size <= 0
\* or an invalid n_views is rejected before training starts: the tracking
\* run is never initialised, no batch is consumed, no optimizer step is
\* taken, and the run is never Running or Finished.
C4_InvalidConfigRejectedBeforeStart ==
    InvalidConfig =>
        /\ ~wandb_inited
        /\ consumed = 0
        /\ opt_steps = 0
        /\ pc \in {"Idle", "Failed"}

\* C5: scheduler.step() runs only at the end of an epoch, at most once per
\* epoch and only for epochs of index >= 10: the calls made are those of
\* epochs 10, 11, ... up to the last completed epoch, whatever the number
\* of batches, and a complete run of E epochs has made max(0, E - 10).
C5_SchedulerOncePerEpochAfterWarmup ==
    /\ scheduler_steps =
          [k \in 1..Max0(epoch_counter - WarmupEpochs) |-> WarmupEpochs + k - 1]
    /\ pc \in {"Finishing", "Saved", "Finished"} =>
          Len(scheduler_steps) = Max0(args.train_epochs - WarmupEpochs)

\* A complete run of 12 epochs of 2 batches, with its 2 scheduler steps.
C5_Witness ==
    /\ pc = "Finished"
    /\ UsableConfig
    /\ args.train_epochs = 12
    /\ train_loader = 2
    /\ scheduler_steps = <<10, 11>>

\* C6: the global step counter starts at 0, grows by one per consumed batch
\* and is not reset between epochs; the metric events accepted are those
\* of the steps 0, K, 2K, ... below the counter, each carrying its step
\* and emitted after that batch's optimizer step; a complete run of E
\* epochs of M batches has emitted ceil(E * M / K) of them.
C6_MetricEveryKSteps ==
    /\ pc = "Idle" => n_iter = 0
    /\ pc # "Failed" => n_iter = consumed
    /\ pc = "Failed" => n_iter \in {consumed, consumed - 1}
    /\ pc = "Running" => n_iter = epoch_counter * train_loader + batch_idx
    /\ Len(wandb_log) = CeilDiv(n_iter, args.log_every_n_steps)
    /\ \A k \in 1..Len(wandb_log) :
          /\ wandb_log[k].global_step = (k - 1) * args.log_every_n_steps
          /\ wandb_log[k].loss = <<wandb_log[k].global_step>>
          /\ wandb_log[k].opt_steps = wandb_log[k].global_step + 1
    /\ pc = "Finished" =>
          Len(wandb_log) =
              CeilDiv(args.train_epochs * train_loader, args.log_every_n_steps)

\* A complete run of 2 epochs of 2 batches logging every 3 steps: the
\* events of steps 0 and 3, the second one in the second epoch.
C6_Witness ==
    /\ pc = "Finished"
    /\ UsableConfig
    /\ args.train_epochs = 2
    /\ train_loader = 2
    /\ args.log_every_n_steps = 3
    /\ Len(wandb_log) = 2
    /\ wandb_log[2].global_step = 3

\* C7 (as claimed): a wandb.log that raises during a metric emission does
\* not abort training: no run (of a usable configuration) ends by that
\* exception.
C7_LogFailureDoesNotAbort ==
    UsableConfig => ~(pc = "Failed" /\ failure = "wandb.log")

\* C8 (as claimed): for every number of epochs and every finite, possibly
\* empty, batch sequence, a run (of a usable configuration) in which no
\* collaborator fails does not fail; no checkpoint is written before the
\* last epoch has completed, and the finished run has written exactly one,
\* of epoch train_epochs, named after train_epochs.
C8_OneCheckpointOnEveryRun ==
    UsableConfig =>
        /\ pc = "Failed" =>
              failure \in {"wandb.log", "save_checkpoint", "wandb.save"}
        /\ pc \in {"Idle", "Running", "Finishing"} => checkpoints = <<>>
        /\ pc = "Finished" =>
              /\ epoch_counter = args.train_epochs
              /\ Len(checkpoints) = 1
              /\ checkpoints[1].state.epoch = args.train_epochs
              /\ checkpoints[1].filename = CheckpointName(args.train_epochs)

\* C9: wandb.save is called only once save_checkpoint has returned; a
\* save_checkpoint that raises ends the run with no mirror attempted; a
\* wandb.save that raises ends the run with the written checkpoint still
\* there as written.
C9_LocalCheckpointBeforeMirror ==
    /\ wandb_save_calls > 0 =>
          /\ checkpoints = <<CheckpointRecord>>
          /\ failure # "save_checkpoint"
    /\ failure = "save_checkpoint" =>
          /\ pc = "Failed"
          /\ wandb_save_calls = 0
          /\ wandb_saved = <<>>
    /\ failure = "wandb.save" =>
          /\ pc = "Failed"
          /\ checkpoints = <<CheckpointRecord>>
    /\ pc = "Finished" =>
          /\ checkpoints = <<CheckpointRecord>>
          /\ wandb_saved = <<checkpoints[1].filename>>

\* A run of 2 epochs whose mirror failed after the checkpoint was written.
C9_Witness ==
    /\ pc = "Failed"
    /\ UsableConfig
    /\ failure = "wandb.save"
    /\ wandb_save_calls = 1
    /\ args.train_epochs = 2
    /\ Len(checkpoints) = 1
    /\ checkpoints[1].state.epoch = 2

\* C10 (as claimed): the end-of-epoch log line reports a loss and a top-1
\* accuracy both computed from the last batch of that epoch (whose global
\* step is (epoch + 1) * batches per epoch - 1).
C10_EpochLogFromLastBatch ==
    UsableConfig =>
        \A k \in 1..Len(epoch_log) :
            /\ epoch_log[k].loss = (epoch_log[k].epoch + 1) * train_loader - 1
            /\ epoch_log[k].top1 = (epoch_log[k].epoch + 1) * train_loader - 1

====
